---- MODULE Spec2Model ----
(***************************************************************************)
(* Model of the undo/redo history manager of walaw-tools                   *)
(* (client/src/hooks/use-history.ts).                                      *)
(*                                                                         *)
(* React applies the queued setHistory updates of one event handler in     *)
(* call order, so `history` below is the value the queue evaluates to.     *)
(* What a callback closes over (history.present in `clear`) is the value   *)
(* of the last render, kept in `renderedPresent`; it only changes when     *)
(* the component renders again (action Render).                            *)
(***************************************************************************)
EXTENDS Integers, Sequences, FiniteSets, TLC

\* ------------------------------------------------------------------------
\* Bounds
\* ------------------------------------------------------------------------
MaxHistory == 2

\* ------------------------------------------------------------------------
\* State values T: plain objects, an ordered list of own properties.
\* Primitives are named by strings: the numbers "1" and "2", "NaN", "null".
\* ------------------------------------------------------------------------
Prop(k, v) == [key |-> k, val |-> v]

Values ==
  { << Prop("a", "1") >>,
    << Prop("a", "1"), Prop("b", "2") >>,
    << Prop("b", "2"), Prop("a", "1") >>,
    << Prop("a", "NaN") >>,
    << Prop("a", "null") >> }

\* JSON.stringify of a primitive: NaN is written as null.
JSONPrimitive(p) == IF p = "NaN" THEN "null" ELSE p

\* JSON.stringify of an object, as its token sequence: own properties in
\* insertion order, separated by commas.
RECURSIVE JSONMembers(_)
JSONMembers(obj) ==
  IF obj = << >> THEN << >>
  ELSE << obj[1].key, ":", JSONPrimitive(obj[1].val) >>
       \o (IF Len(obj) > 1 THEN << "," >> ELSE << >>)
       \o JSONMembers(Tail(obj))

JSONstringify(obj) == << "{" >> \o JSONMembers(obj) \o << "}" >>

\* The own property names of an object.
KeysOf(obj) == { obj[i].key : i \in 1..Len(obj) }

\* Object spread with one overriding property: { ...prev, [k]: v }.
Spread(prev, k, v) ==
  IF k \in KeysOf(prev)
  THEN [i \in 1..Len(prev) |-> IF prev[i].key = k THEN Prop(k, v) ELSE prev[i]]
  ELSE Append(prev, Prop(k, v))

\* The updater functions passed to setState: prev => ({ ...prev, a: 1 }).
Updaters == { << "a", "1" >> }
ApplyUpdater(u, prev) == Spread(prev, u[1], u[2])

\* ------------------------------------------------------------------------
\* State
\* ------------------------------------------------------------------------
VARIABLES
  history,          \* HistoryState<T>: [past, present, future]
  maxHistorySize,   \* option of the hook
  initialState,     \* option of the hook
  renderedPresent,  \* history.present as of the last render (closures)
  lastOp,           \* name of the last operation called
  lastArg,          \* its argument: <<resolved value>> or <<index>>
  before,           \* history before the last operation
  beforeUndone,     \* TRUE when the operation before the last one was undo
  phase,            \* "sets": only setState so far; "undos": then only undo
  calls             \* the resolved values of those setState calls

\* The preset collection of one tool (usePresets) and what it talks to.
VARIABLES
  now,              \* the clock Date.now() reads
  defaultPresets,   \* option of the hook
  presets,          \* the collection, as the queued updates leave it
  renderedPresets,  \* the collection as of the last render (closures)
  presetsDirty,     \* TRUE while a render and its persist effect are due
  presetStore,      \* localStorage[storageKey]: << >> or << blob >>
  exported,         \* the file exportPresets last produced: << >> or << blob >>
  exportedFrom,     \* the collection that file was made from
  reading,          \* the file a FileReader is reading: << >> or << text >>
  nextPresetId,     \* number of ids generated so far
  pToast,           \* title of the last toast
  pWriteOk,         \* whether the last localStorage.setItem succeeded
  pLastOp,          \* name of the last preset operation
  pLastArg,         \* its arguments
  pBefore,          \* the collection before the last preset operation
  pOps              \* number of preset operations called so far

\* The project of one tool (useProject) and the store it saves to.
VARIABLES
  toolName,          \* option of the hook
  currentProject,    \* << >> (null) or << project >>, as queued updates leave it
  renderedProject,   \* currentProject as of the last render (closures)
  hasUnsavedChanges, \* the flag, as queued updates leave it
  projectStore,      \* localStorage: project id -> blob, for the ids stored
  recentStore,       \* localStorage[recentKey]: the recency index
  nextProjectId,     \* number of ids generated so far
  jToast,            \* title of the last toast of the project hook
  jReturned,         \* what the last project operation returned
  jLastOp,           \* name of the last project operation
  jLastArg,          \* its arguments
  jBefore,           \* project, flag and store before the last operation
  jOps,              \* number of project operations called so far
  jCreated,          \* id and arguments of the last createNew, while the
                     \* project it made has not been edited: << >> or << r >>
  autoSave,          \* option of the hook
  mounted,           \* FALSE once the host view has been torn down
  renderedUnsaved,   \* hasUnsavedChanges as of the last render (effects)
  jDirty,            \* TRUE while a render and its effects are due
  timers,            \* the pending setTimeout callbacks
  timerRef,          \* autoSaveTimerRef.current: << >> or << timer id >>
  hasCleanup,        \* whether the last auto-save effect returned a cleanup
  nextTimerId,       \* number of timers armed so far
  jReading,          \* the file a FileReader is reading: << >> or << file >>
  jQuiet             \* TRUE when autoSaveInterval has passed since the last
                     \* updateData or rename

\* The video part of the export dialog (ExportDialog) and its recorder.
VARIABLES
  open,               \* prop: the dialog is shown
  canvas,             \* canvasRef.current is set
  videoDuration,      \* state: seconds to record
  renderedDuration,   \* videoDuration as of the last render (closures)
  isRecording,        \* state, as queued updates leave it
  renderedRecording,  \* isRecording as of the last render (closures, button)
  exportDirty,        \* a render is due
  recorderRef,        \* << >> (null) or << id of the CanvasRecorder >>
  started,            \* the recorders whose MediaRecorder exists
  capturing,          \* the recorders whose MediaRecorder is recording
  stopTimers,         \* pending setTimeout callbacks of handleVideoStart
  nextRecorderId,     \* recorders and timers made so far
  downloads,          \* number of videos saved
  xToast,             \* last toast of the dialog
  xLastOp,            \* name of the last handler or callback
  xLastArg,           \* << timer >> for the callback
  xBefore,            \* recorderRef, capturing, downloads before it
  xOps                \* number of user actions so far

exportVars == << open, canvas, videoDuration, renderedDuration, isRecording,
                 renderedRecording, exportDirty, recorderRef, started,
                 capturing, stopTimers, nextRecorderId, downloads, xToast,
                 xLastOp, xLastArg, xBefore, xOps >>

projectVars == << toolName, currentProject, renderedProject,
                  hasUnsavedChanges, projectStore, recentStore,
                  nextProjectId, jToast, jReturned, jLastOp, jLastArg,
                  jBefore, jOps, jCreated, autoSave, mounted,
                  renderedUnsaved, jDirty, timers, timerRef, hasCleanup,
                  nextTimerId, jReading, jQuiet >>

\* What only renders, timers, file readers and teardown change.
deferredVars == << autoSave, mounted, renderedUnsaved, timers, timerRef,
                   hasCleanup, nextTimerId, jReading >>

presetVars == << defaultPresets, presets, renderedPresets, presetsDirty,
                 presetStore, exported, exportedFrom, reading, nextPresetId,
                 pToast, pWriteOk, pLastOp, pLastArg, pBefore, pOps >>

persistenceVars == << now, presetVars, projectVars, exportVars >>

historyVars == << history, maxHistorySize, initialState, renderedPresent,
                  lastOp, lastArg, before, beforeUndone, phase, calls >>

vars == << history, maxHistorySize, initialState, renderedPresent,
           lastOp, lastArg, before, beforeUndone, phase, calls,
           persistenceVars >>

\* The history of the host view is left alone.
HistoryIdle ==
  /\ history = [past |-> << >>, present |-> << Prop("a", "1") >>,
                future |-> << >>]
  /\ maxHistorySize = 1
  /\ initialState = history.present
  /\ renderedPresent = history.present
  /\ lastOp = "init"
  /\ lastArg = << >>
  /\ before = history
  /\ beforeUndone = FALSE
  /\ phase = "off"
  /\ calls = << >>

\* No preset collection is mounted.
PresetsIdle ==
  /\ defaultPresets = << >>
  /\ presets = << >>
  /\ renderedPresets = << >>
  /\ presetsDirty = FALSE
  /\ presetStore = << >>
  /\ exported = << >>
  /\ exportedFrom = << >>
  /\ reading = << >>
  /\ nextPresetId = 0
  /\ pToast = "none"
  /\ pWriteOk = TRUE
  /\ pLastOp = "none"
  /\ pLastArg = << >>
  /\ pBefore = << >>
  /\ pOps = 0

\* No project hook is mounted.
ProjectIdle ==
  /\ toolName = "none"
  /\ currentProject = << >>
  /\ renderedProject = << >>
  /\ hasUnsavedChanges = FALSE
  /\ projectStore = << >>
  /\ recentStore = << >>
  /\ nextProjectId = 0
  /\ jToast = "none"
  /\ jReturned = << >>
  /\ jLastOp = "none"
  /\ jLastArg = << >>
  /\ jBefore = << >>
  /\ jOps = 0
  /\ jCreated = << >>
  /\ autoSave = FALSE
  /\ mounted = FALSE
  /\ renderedUnsaved = FALSE
  /\ jDirty = FALSE
  /\ timers = { }
  /\ timerRef = << >>
  /\ hasCleanup = FALSE
  /\ nextTimerId = 0
  /\ jReading = << >>
  /\ jQuiet = TRUE

\* No export dialog is mounted.
ExportIdle ==
  /\ open = FALSE
  /\ canvas = FALSE
  /\ videoDuration = 0
  /\ renderedDuration = 0
  /\ isRecording = FALSE
  /\ renderedRecording = FALSE
  /\ exportDirty = FALSE
  /\ recorderRef = << >>
  /\ started = { }
  /\ capturing = { }
  /\ stopTimers = { }
  /\ nextRecorderId = 0
  /\ downloads = 0
  /\ xToast = "none"
  /\ xLastOp = "none"
  /\ xLastArg = << >>
  /\ xBefore = << >>
  /\ xOps = 0

HistoryState(p, c, f) == [past |-> p, present |-> c, future |-> f]

canUndo == Len(history.past) > 0
canRedo == Len(history.future) > 0

Front(s) == SubSeq(s, 1, Len(s) - 1)
Last(s) == s[Len(s)]

\* ------------------------------------------------------------------------
\* The state updates of the hook
\* ------------------------------------------------------------------------
setStateUpdate_NoLimit(prev, resolvedState, max) ==
  IF JSONstringify(resolvedState) = JSONstringify(prev.present)
  THEN prev
  ELSE HistoryState(Append(prev.past, prev.present), resolvedState, << >>)

setStateUpdate_KeepFuture(prev, resolvedState, max) ==
  IF JSONstringify(resolvedState) = JSONstringify(prev.present)
  THEN prev
  ELSE LET newPast == Append(prev.past, prev.present)
       IN HistoryState(IF Len(newPast) > max THEN Tail(newPast) ELSE newPast,
                       resolvedState, prev.future)

setStateUpdate(prev, resolvedState, max) ==
  IF JSONstringify(resolvedState) = JSONstringify(prev.present)
  THEN prev
  ELSE LET newPast == Append(prev.past, prev.present)
       IN HistoryState(IF Len(newPast) > max THEN Tail(newPast) ELSE newPast,
                       resolvedState, << >>)

undoUpdate_Shift(prev) ==
  IF Len(prev.past) = 0 THEN prev
  ELSE HistoryState(Tail(prev.past), Head(prev.past),
                    << prev.present >> \o prev.future)

undoUpdate_DropPresent(prev) ==
  IF Len(prev.past) = 0 THEN prev
  ELSE HistoryState(Front(prev.past), Last(prev.past), prev.future)

undoUpdate(prev) ==
  IF Len(prev.past) = 0 THEN prev
  ELSE HistoryState(Front(prev.past), Last(prev.past),
                    << prev.present >> \o prev.future)

redoUpdate_Prepend(prev) ==
  IF Len(prev.future) = 0 THEN prev
  ELSE HistoryState(<< prev.present >> \o prev.past, prev.future[1],
                    Tail(prev.future))

redoUpdate(prev) ==
  IF Len(prev.future) = 0 THEN prev
  ELSE HistoryState(Append(prev.past, prev.present), prev.future[1],
                    Tail(prev.future))

jumpToPastUpdate_DropRest(prev, index) ==
  IF index < 0 \/ index >= Len(prev.past) THEN prev
  ELSE HistoryState(SubSeq(prev.past, 1, index), prev.past[index + 1],
                    << prev.present >> \o prev.future)

jumpToPastUpdate(prev, index) ==
  IF index < 0 \/ index >= Len(prev.past) THEN prev
  ELSE HistoryState(SubSeq(prev.past, 1, index), prev.past[index + 1],
                    SubSeq(prev.past, index + 2, Len(prev.past))
                      \o << prev.present >> \o prev.future)

\* ------------------------------------------------------------------------
\* Bookkeeping of the call sequence (not program state)
\* ------------------------------------------------------------------------
LogSetState(resolvedState) ==
  IF phase = "sets" /\ Len(calls) <= MaxHistory
  THEN /\ phase' = "sets"
       /\ calls' = Append(calls, resolvedState)
  ELSE /\ phase' = "off"
       /\ calls' = << >>

LogUndo ==
  IF phase \in {"sets", "undos"} /\ Len(calls) > 0
  THEN /\ phase' = "undos"
       /\ calls' = calls
  ELSE /\ phase' = "off"
       /\ calls' = << >>

LogOther ==
  /\ phase' = "off"
  /\ calls' = << >>

\* ------------------------------------------------------------------------
\* Operations
\* ------------------------------------------------------------------------
Init ==
  /\ maxHistorySize \in 1..MaxHistory
  /\ initialState \in Values
  /\ history = HistoryState(<< >>, initialState, << >>)
  /\ renderedPresent = initialState
  /\ lastOp = "init"
  /\ lastArg = << >>
  /\ before = history
  /\ beforeUndone = FALSE
  /\ phase = "sets"
  /\ calls = << >>
  /\ now = 0
  /\ PresetsIdle
  /\ ProjectIdle
  /\ ExportIdle

\* setState(newState) with a direct value
setState(newState) ==
  /\ history' = setStateUpdate(history, newState, maxHistorySize)
  /\ lastOp' = "setState"
  /\ lastArg' = << newState >>
  /\ before' = history
  /\ beforeUndone' = (lastOp = "undo")
  /\ LogSetState(newState)
  /\ UNCHANGED << maxHistorySize, initialState, renderedPresent >>
  /\ UNCHANGED persistenceVars

\* setState(prev => ...) with an updater function
setStateFn(u) ==
  LET resolvedState == ApplyUpdater(u, history.present)
  IN /\ history' = setStateUpdate(history, resolvedState, maxHistorySize)
     /\ lastOp' = "setState"
     /\ lastArg' = << resolvedState >>
     /\ before' = history
     /\ beforeUndone' = (lastOp = "undo")
     /\ LogSetState(resolvedState)
     /\ UNCHANGED << maxHistorySize, initialState, renderedPresent >>
     /\ UNCHANGED persistenceVars

undo ==
  /\ history' = undoUpdate(history)
  /\ lastOp' = "undo"
  /\ lastArg' = << >>
  /\ before' = history
  /\ beforeUndone' = (lastOp = "undo")
  /\ LogUndo
  /\ UNCHANGED << maxHistorySize, initialState, renderedPresent >>
  /\ UNCHANGED persistenceVars

redo ==
  /\ history' = redoUpdate(history)
  /\ lastOp' = "redo"
  /\ lastArg' = << >>
  /\ before' = history
  /\ beforeUndone' = (lastOp = "undo")
  /\ LogOther
  /\ UNCHANGED << maxHistorySize, initialState, renderedPresent >>
  /\ UNCHANGED persistenceVars

\* clear() replaces the state by one built from the rendered history.present
clear ==
  /\ history' = HistoryState(<< >>, renderedPresent, << >>)
  /\ lastOp' = "clear"
  /\ lastArg' = << >>
  /\ before' = history
  /\ beforeUndone' = (lastOp = "undo")
  /\ LogOther
  /\ UNCHANGED << maxHistorySize, initialState, renderedPresent >>
  /\ UNCHANGED persistenceVars

reset ==
  /\ history' = HistoryState(<< >>, initialState, << >>)
  /\ lastOp' = "reset"
  /\ lastArg' = << >>
  /\ before' = history
  /\ beforeUndone' = (lastOp = "undo")
  /\ LogOther
  /\ UNCHANGED << maxHistorySize, initialState, renderedPresent >>
  /\ UNCHANGED persistenceVars

jumpToPast(index) ==
  /\ history' = jumpToPastUpdate(history, index)
  /\ lastOp' = "jumpToPast"
  /\ lastArg' = << index >>
  /\ before' = history
  /\ beforeUndone' = (lastOp = "undo")
  /\ LogOther
  /\ UNCHANGED << maxHistorySize, initialState, renderedPresent >>
  /\ UNCHANGED persistenceVars

\* The component renders: the callbacks now close over the current state.
Render ==
  /\ renderedPresent # history.present
  /\ renderedPresent' = history.present
  /\ UNCHANGED << history, maxHistorySize, initialState, lastOp, lastArg,
                  before, beforeUndone, phase, calls >>
  /\ UNCHANGED persistenceVars

Next ==
  \/ \E newState \in Values : setState(newState)
  \/ \E u \in Updaters : setStateFn(u)
  \/ undo
  \/ redo
  \/ clear
  \/ reset
  \/ \E index \in -1..(MaxHistory + 1) : jumpToPast(index)
  \/ Render

Spec == Init /\ [][Next]_vars

\* ========================================================================
\* Presets (client/src/hooks/use-keyboard-shortcuts.ts, usePresets)
\* ========================================================================
MaxClock == 1
MaxPresetOps == 3

\* JSON.parse of the token sequence JSON.stringify wrote for an object.
RECURSIVE JSONparseMembers(_)
JSONparseMembers(toks) ==
  IF toks[1] = "}" THEN << >>
  ELSE << Prop(toks[1], toks[3]) >>
       \o JSONparseMembers(SubSeq(toks, IF toks[4] = "," THEN 5 ELSE 4,
                                  Len(toks)))

JSONparse(toks) == JSONparseMembers(Tail(toks))

\* Date.now(): the clock has not run backwards since time t.
DateNow(t) == { t, IF t < MaxClock THEN t + 1 ELSE t }

Preset(id, name, description, data, createdAt, updatedAt) ==
  [id |-> id, name |-> name, description |-> description, data |-> data,
   createdAt |-> createdAt, updatedAt |-> updatedAt]

\* What the host tool passes to the hook and to its operations.
PresetData == { << Prop("a", "1") >>, << Prop("a", "NaN") >> }
DefaultPresetList ==
  << Preset(<< "default", 1 >>, "Default", "Built in", << Prop("a", "1") >>,
            0, 0) >>
\* `preset-${Date.now()}-${Math.random()...}`: an id not generated before
PresetId(n) == << "preset", n >>
CustomId == << "custom", 1 >>
Partials == { [name |-> "Renamed"], [id |-> CustomId] }

\* JSON.stringify / JSON.parse of an array of presets.
StringifyPresets(ps) ==
  [i \in 1..Len(ps) |-> [ps[i] EXCEPT !.data = JSONstringify(ps[i].data)]]
ParsePresets(blob) ==
  [i \in 1..Len(blob) |-> [blob[i] EXCEPT !.data = JSONparse(blob[i].data)]]

IdsOf(ps) == { ps[i].id : i \in 1..Len(ps) }

\* Array.prototype.filter keeping the presets whose id is not in ids.
RECURSIVE WithoutIds(_, _)
WithoutIds(ps, ids) ==
  IF ps = << >> THEN << >>
  ELSE (IF ps[1].id \notin ids THEN << ps[1] >> ELSE << >>)
       \o WithoutIds(Tail(ps), ids)

\* presets.filter(preset => !defaultPresets.find(dp => dp.id === preset.id))
userPresets(ps, dps) == WithoutIds(ps, IdsOf(dps))

\* useState initializer: the defaults, then what the store holds.
initialPresets(dps, store) ==
  IF store # << >> THEN dps \o ParsePresets(store[1]) ELSE dps

\* { ...preset, ...data, updatedAt: Date.now() }
MergePreset(p, partial, t) ==
  [f \in DOMAIN p |->
     IF f = "updatedAt" THEN t
     ELSE IF f \in DOMAIN partial THEN partial[f] ELSE p[f]]

updatePresetUpdate(prev, id, partial, t) ==
  [i \in 1..Len(prev) |->
     IF prev[i].id = id THEN MergePreset(prev[i], partial, t) ELSE prev[i]]

deletePresetUpdate(prev, id) == WithoutIds(prev, { id })

\* presets.find(p => p.id === id), then preset.data or null
loadPreset_First(ps, id) ==
  IF ps # << >> THEN << ps[1].data >> ELSE << >>

loadPreset(ps, id) ==
  IF \E i \in 1..Len(ps) : ps[i].id = id
  THEN << ps[CHOOSE i \in 1..Len(ps) :
               /\ ps[i].id = id
               /\ \A j \in 1..(i - 1) : ps[j].id # id].data >>
  ELSE << >>

\* A file the user picks: JSON text of a preset array, or something else.
File(json, blob) == [json |-> json, blob |-> blob]

importUpdate_Replace(prev, imported) == imported

importUpdate(prev, imported) == prev \o imported

\* An event handler calls one preset operation, and the component has
\* re-rendered before the next event is handled.
PresetCalled(op, args, prev) ==
  /\ ~presetsDirty
  /\ pOps < MaxPresetOps
  /\ pOps' = pOps + 1
  /\ pLastOp' = op
  /\ pLastArg' = args
  /\ pBefore' = prev

\* The hook mounts for a tool, on whatever the store holds.
InitPresets ==
  /\ HistoryIdle
  /\ now = 0
  /\ defaultPresets \in { << >>, DefaultPresetList }
  /\ presetStore = << >>
  /\ presets = initialPresets(defaultPresets, presetStore)
  /\ renderedPresets = presets
  /\ presetsDirty = TRUE
  /\ exported = << >>
  /\ exportedFrom = << >>
  /\ reading = << >>
  /\ nextPresetId = 0
  /\ pToast = "none"
  /\ pWriteOk = TRUE
  /\ pLastOp = "mount"
  /\ pLastArg = << >>
  /\ pBefore = presets
  /\ pOps = 0
  /\ ProjectIdle
  /\ ExportIdle

\* The clock read inside the id only makes the id fresh; createdAt and
\* updatedAt are two later reads.
savePreset(name, description, data) ==
  /\ \E t1 \in DateNow(now) : \E t2 \in DateNow(t1) :
       LET newPreset ==
             Preset(PresetId(nextPresetId), name, description, data, t1, t2)
       IN /\ presets' = Append(presets, newPreset)
          /\ now' = t2
          /\ PresetCalled("savePreset", << newPreset.id, data >>, presets)
  /\ nextPresetId' = nextPresetId + 1
  /\ presetsDirty' = TRUE
  /\ pToast' = "Preset Saved"
  /\ UNCHANGED << defaultPresets, renderedPresets, presetStore, exported,
                  exportedFrom, reading, pWriteOk >>
  /\ UNCHANGED << historyVars, projectVars, exportVars >>

updatePreset(id, partial) ==
  /\ \E t \in DateNow(now) :
       /\ presets' = updatePresetUpdate(presets, id, partial, t)
       /\ now' = t
  /\ presetsDirty' = TRUE
  /\ pToast' = "Preset Updated"
  /\ PresetCalled("updatePreset", << id, partial >>, presets)
  /\ UNCHANGED << defaultPresets, renderedPresets, presetStore, exported,
                  exportedFrom, reading, nextPresetId, pWriteOk >>
  /\ UNCHANGED << historyVars, projectVars, exportVars >>

deletePreset(id) ==
  /\ IF id \in IdsOf(defaultPresets)
     THEN /\ pToast' = "Cannot Delete"
          /\ UNCHANGED << presets, presetsDirty >>
     ELSE /\ presets' = deletePresetUpdate(presets, id)
          /\ presetsDirty' = TRUE
          /\ pToast' = "Preset Deleted"
  /\ PresetCalled("deletePreset", << id >>, presets)
  /\ UNCHANGED << now, defaultPresets, renderedPresets, presetStore, exported,
                  exportedFrom, reading, nextPresetId, pWriteOk >>
  /\ UNCHANGED << historyVars, projectVars, exportVars >>

exportPresets ==
  /\ exported' = << StringifyPresets(renderedPresets) >>
  /\ exportedFrom' = renderedPresets
  /\ pToast' = "Presets Exported"
  /\ PresetCalled("exportPresets", << >>, presets)
  /\ UNCHANGED << now, defaultPresets, presets, renderedPresets, presetsDirty,
                  presetStore, reading, nextPresetId, pWriteOk >>
  /\ UNCHANGED << historyVars, projectVars, exportVars >>

\* importPresets(file): a FileReader starts reading the file
importPresets(file) ==
  /\ reading = << >>
  /\ reading' = << file >>
  /\ PresetCalled("importPresets", << >>, presets)
  /\ UNCHANGED << now, defaultPresets, presets, renderedPresets, presetsDirty,
                  presetStore, exported, exportedFrom, nextPresetId, pToast,
                  pWriteOk >>
  /\ UNCHANGED << historyVars, projectVars, exportVars >>

\* reader.onload: the text is parsed and appended
importPresetsOnload ==
  /\ reading # << >>
  /\ reading' = << >>
  /\ IF ~reading[1].json
     THEN /\ pToast' = "Import Failed"
          /\ UNCHANGED << presets, presetsDirty >>
     ELSE /\ presets' = importUpdate(presets, ParsePresets(reading[1].blob))
          /\ presetsDirty' = TRUE
          /\ pToast' = "Presets Imported"
  /\ pLastOp' = "onload"
  /\ pLastArg' = << reading[1] >>
  /\ pBefore' = presets
  /\ UNCHANGED pOps
  /\ UNCHANGED << now, defaultPresets, renderedPresets, presetStore, exported,
                  exportedFrom, nextPresetId, pWriteOk >>
  /\ UNCHANGED << historyVars, projectVars, exportVars >>

\* The component renders the queued collection and the persist effect runs;
\* localStorage.setItem may throw (quota), which the effect only logs.
RenderPresets ==
  /\ presetsDirty
  /\ presetsDirty' = FALSE
  /\ renderedPresets' = presets
  /\ \/ /\ presetStore' = << StringifyPresets(userPresets(presets, defaultPresets)) >>
        /\ pWriteOk' = TRUE
     \/ /\ presetStore' = presetStore
        /\ pWriteOk' = FALSE
  /\ UNCHANGED << now, defaultPresets, presets, exported, exportedFrom,
                  reading, nextPresetId, pToast, pLastOp, pLastArg, pBefore,
                  pOps >>
  /\ UNCHANGED << historyVars, projectVars, exportVars >>

\* The view is opened again: the hook mounts on what the store holds.
RemountPresets ==
  /\ presets' = initialPresets(defaultPresets, presetStore)
  /\ renderedPresets' = presets'
  /\ presetsDirty' = TRUE
  /\ reading' = << >>
  /\ PresetCalled("mount", << >>, presets)
  /\ UNCHANGED << now, defaultPresets, presetStore, exported, exportedFrom,
                  nextPresetId, pToast, pWriteOk >>
  /\ UNCHANGED << historyVars, projectVars, exportVars >>

NextPresets ==
  \/ \E data \in PresetData : savePreset("Mine", "Custom preset", data)
  \/ \E id \in IdsOf(presets) \cup { CustomId } : \E partial \in Partials :
       updatePreset(id, partial)
  \/ \E id \in IdsOf(presets) \cup IdsOf(defaultPresets) \cup { CustomId } :
       deletePreset(id)
  \/ exportPresets
  \/ exported # << >> /\ importPresets(File(TRUE, exported[1]))
  \/ importPresets(File(FALSE, << >>))
  \/ importPresetsOnload
  \/ RenderPresets
  \/ RemountPresets

SpecPresets == InitPresets /\ [][NextPresets]_vars

\* ========================================================================
\* Projects (client/src/pages/dashboard.tsx, useProject)
\* ========================================================================
MaxProjectOps == 3
RecentLimit == 10

Project(id, name, tool, data, createdAt, updatedAt, version) ==
  [id |-> id, name |-> name, toolName |-> tool, data |-> data,
   createdAt |-> createdAt, updatedAt |-> updatedAt, version |-> version]

\* What the host tool passes to the hook and to its operations.
ToolNames == { "audio-visualizer" }
Version == "1.0.0"
ProjectData == { << Prop("a", "1") >>, << Prop("a", "NaN") >> }
ProjectNames == { "My Mosaic", "" }
\* `project-${Date.now()}-${Math.random()...}`: an id not generated before
ProjectId(n) == << "project", n >>
\* name || `Untitled ${toolName} Project`
ProjectName(name, tool) ==
  IF name # "" THEN name
  ELSE IF tool = "audio-visualizer" THEN "Untitled audio-visualizer Project"
  ELSE "Untitled Project"

\* JSON.stringify(currentProject) / JSON.parse(stored); a stored text that
\* is not JSON has json = FALSE.
Blob(json, text) == [json |-> json, text |-> text]
StringifyProject(p) == Blob(TRUE, [p EXCEPT !.data = JSONstringify(p.data)])
ParseProject(blob) == [blob.text EXCEPT !.data = JSONparse(blob.text.data)]

\* What earlier sessions left in localStorage: projects of this tool with
\* their recency index, a project another tool saved, a damaged entry.
OldProject(k, tool) ==
  Project(<< "old", k >>, "Old", tool, << Prop("a", "1") >>, 0, 0, Version)
ForeignProject ==
  Project(<< "other", 1 >>, "Swarm", "particle-swarm", << Prop("a", "1") >>,
          0, 0, Version)
CorruptId == << "corrupt", 1 >>
AbsentId == << "absent", 1 >>
RecentEntry(p) == [id |-> p.id, name |-> p.name, updatedAt |-> p.updatedAt]
OldRecent(n, tool) == [k \in 1..n |-> RecentEntry(OldProject(k, tool))]
OldStore(n, tool) ==
  [id \in { << "old", k >> : k \in 1..n } \cup { ForeignProject.id, CorruptId }
     |-> IF id = ForeignProject.id THEN StringifyProject(ForeignProject)
         ELSE IF id = CorruptId THEN Blob(FALSE, << >>)
         ELSE StringifyProject(OldProject(id[2], tool))]

\* localStorage.getItem / setItem on the project keys
getItem(store, id) == IF id \in DOMAIN store THEN << store[id] >> ELSE << >>
setItem(store, id, blob) ==
  [k \in DOMAIN store \cup { id } |-> IF k = id THEN blob ELSE store[k]]

\* Array.prototype.slice(0, n)
Slice(s, n) == SubSeq(s, 1, IF Len(s) < n THEN Len(s) ELSE n)

\* [{id, name, updatedAt}, ...recent.filter(p => p.id !== id)].slice(0, 10)
recentUpdate_NoFilter(recent, p) ==
  Slice(<< RecentEntry(p) >> \o recent, RecentLimit)

recentUpdate(recent, p) ==
  Slice(<< RecentEntry(p) >> \o WithoutIds(recent, { p.id }), RecentLimit)

\* getRecentProjects(): the recency index as stored
getRecentProjects == recentStore

\* Project, flag, store and timers as an operation finds them.
Snapshot ==
  [project |-> currentProject, unsaved |-> hasUnsavedChanges,
   store |-> projectStore, recent |-> recentStore, timers |-> timers]

\* A handler of the mounted view calls an operation of the hook.
ProjectCalled(op, args) ==
  /\ mounted
  /\ jOps < MaxProjectOps
  /\ jOps' = jOps + 1
  /\ jLastOp' = op
  /\ jLastArg' = args
  /\ jBefore' = Snapshot

\* A timer or a FileReader calls back, or the view is torn down.
DeferredCalled(op, args) ==
  /\ jLastOp' = op
  /\ jLastArg' = args
  /\ jBefore' = Snapshot
  /\ UNCHANGED jOps

\* The hook mounts for a tool, on what earlier sessions left in the store.
MountProject ==
  /\ HistoryIdle
  /\ PresetsIdle
  /\ ExportIdle
  /\ now = 0
  /\ toolName \in ToolNames
  /\ mounted = TRUE
  /\ currentProject = << >>
  /\ renderedProject = << >>
  /\ hasUnsavedChanges = FALSE
  /\ renderedUnsaved = FALSE
  /\ jDirty = FALSE
  /\ timers = { }
  /\ timerRef = << >>
  /\ hasCleanup = FALSE
  /\ nextTimerId = 0
  /\ jReading = << >>
  /\ jQuiet = TRUE
  /\ \E n \in { 0, RecentLimit - 1, RecentLimit } :
       /\ projectStore = OldStore(n, toolName)
       /\ recentStore = OldRecent(n, toolName)
  /\ nextProjectId = 0
  /\ jToast = "none"
  /\ jReturned = << >>
  /\ jLastOp = "mount"
  /\ jLastArg = << >>
  /\ jBefore = Snapshot
  /\ jOps = 0
  /\ jCreated = << >>

\* useProject({ toolName }): autoSave = false is the default
InitProject == MountProject /\ autoSave = FALSE

\* createNew(initialData, name): the clock read inside the id only makes the
\* id fresh; createdAt and updatedAt are two later reads.
createNew(initialData, name) ==
  /\ \E t1 \in DateNow(now) : \E t2 \in DateNow(t1) :
       LET newProject ==
             Project(ProjectId(nextProjectId), ProjectName(name, toolName),
                     toolName, initialData, t1, t2, Version)
       IN /\ currentProject' = << newProject >>
          /\ jReturned' = << newProject >>
          /\ now' = t2
  /\ nextProjectId' = nextProjectId + 1
  /\ hasUnsavedChanges' = FALSE
  /\ jDirty' = TRUE
  /\ jToast' = "New Project Created"
  /\ jCreated' = << [id |-> ProjectId(nextProjectId), data |-> initialData,
                      name |-> name] >>
  /\ ProjectCalled("createNew", << initialData, name >>)
  /\ UNCHANGED << toolName, renderedProject, projectStore, recentStore,
                  jQuiet >>
  /\ UNCHANGED << historyVars, presetVars, deferredVars, exportVars >>

\* The updater of updateData and rename: null stays null.
projectUpdate(prev, field, value, t) ==
  IF prev = << >> THEN << >>
  ELSE << [f \in DOMAIN prev[1] |->
             IF f = field THEN value
             ELSE IF f = "updatedAt" THEN t ELSE prev[1][f]] >>

\* What updateData and rename leave behind besides the project: the flag is
\* set whether or not there is a project; a new project object or a new
\* flag value makes the component render again.
Edited ==
  /\ hasUnsavedChanges' = TRUE
  /\ jDirty' = (jDirty \/ currentProject # << >> \/ ~hasUnsavedChanges)
  /\ jQuiet' = (jQuiet /\ currentProject = << >>)
  /\ jReturned' = << >>
  /\ jCreated' = << >>

\* updateData(data) with a direct value
updateData(data) ==
  /\ \E t \in (IF currentProject = << >> THEN { now } ELSE DateNow(now)) :
       /\ currentProject' = projectUpdate(currentProject, "data", data, t)
       /\ now' = t
  /\ Edited
  /\ ProjectCalled("updateData", << data >>)
  /\ UNCHANGED << toolName, renderedProject, projectStore, recentStore,
                  nextProjectId, jToast >>
  /\ UNCHANGED << historyVars, presetVars, deferredVars, exportVars >>

\* updateData(prev => ...) with an updater function
updateDataFn(u) ==
  /\ \E t \in (IF currentProject = << >> THEN { now } ELSE DateNow(now)) :
       /\ currentProject' =
            IF currentProject = << >> THEN << >>
            ELSE projectUpdate(currentProject, "data",
                               ApplyUpdater(u, currentProject[1].data), t)
       /\ now' = t
  /\ Edited
  /\ ProjectCalled("updateData", << u >>)
  /\ UNCHANGED << toolName, renderedProject, projectStore, recentStore,
                  nextProjectId, jToast >>
  /\ UNCHANGED << historyVars, presetVars, deferredVars, exportVars >>

rename(newName) ==
  /\ \E t \in (IF currentProject = << >> THEN { now } ELSE DateNow(now)) :
       /\ currentProject' = projectUpdate(currentProject, "name", newName, t)
       /\ now' = t
  /\ Edited
  /\ ProjectCalled("rename", << newName >>)
  /\ UNCHANGED << toolName, renderedProject, projectStore, recentStore,
                  nextProjectId, jToast >>
  /\ UNCHANGED << historyVars, presetVars, deferredVars, exportVars >>

\* hasUnsavedChanges after save(): setHasUnsavedChanges(false) is the last
\* statement of the try block, so it runs only when both writes went through.
unsavedAfterSave_Cleared(accepted, unsaved) == FALSE

unsavedAfterSave(accepted, unsaved) == IF accepted THEN FALSE ELSE unsaved

\* The body of save as a callback made at some render: it works on the
\* project of that render; either localStorage write may throw (quota),
\* which the catch turns into a toast.
saveBody(closure) ==
  /\ IF closure = << >>
     THEN /\ jToast' = "No Project"
          /\ UNCHANGED << projectStore, recentStore, hasUnsavedChanges >>
     ELSE LET p == closure[1]
              written == setItem(projectStore, p.id, StringifyProject(p))
          IN \/ /\ projectStore' = written
                /\ recentStore' = recentUpdate(recentStore, p)
                /\ hasUnsavedChanges'
                     = unsavedAfterSave(TRUE, hasUnsavedChanges)
                /\ jToast' = "Project Saved"
             \/ /\ projectStore' = written
                /\ hasUnsavedChanges'
                     = unsavedAfterSave(FALSE, hasUnsavedChanges)
                /\ jToast' = "Save Failed"
                /\ UNCHANGED recentStore
             \/ /\ hasUnsavedChanges'
                     = unsavedAfterSave(FALSE, hasUnsavedChanges)
                /\ jToast' = "Save Failed"
                /\ UNCHANGED << projectStore, recentStore >>
  /\ jDirty' = (jDirty \/ hasUnsavedChanges' # hasUnsavedChanges)
  /\ jReturned' = << >>
  /\ UNCHANGED << now, toolName, currentProject, renderedProject,
                  nextProjectId, jCreated, jQuiet >>
  /\ UNCHANGED << historyVars, presetVars, exportVars >>

\* save() called by a handler: the callback of the last render
save ==
  /\ saveBody(renderedProject)
  /\ ProjectCalled("save", renderedProject)
  /\ UNCHANGED deferredVars

load(projectId) ==
  /\ LET stored == getItem(projectStore, projectId)
     IN IF stored = << >>
        THEN /\ jToast' = "Project Not Found"
             /\ jReturned' = << >>
             /\ UNCHANGED << currentProject, hasUnsavedChanges, jDirty >>
        ELSE IF ~stored[1].json
        THEN /\ jToast' = "Load Failed"
             /\ jReturned' = << >>
             /\ UNCHANGED << currentProject, hasUnsavedChanges, jDirty >>
        ELSE /\ currentProject' = << ParseProject(stored[1]) >>
             /\ hasUnsavedChanges' = FALSE
             /\ jDirty' = TRUE
             /\ jToast' = "Project Loaded"
             /\ jReturned' = << ParseProject(stored[1]) >>
  /\ ProjectCalled("load", << projectId >>)
  /\ UNCHANGED << now, toolName, renderedProject, projectStore, recentStore,
                  nextProjectId, jCreated, jQuiet >>
  /\ UNCHANGED << historyVars, presetVars, deferredVars, exportVars >>

\* exportToFile(): the project of the last render goes out as a file
exportToFile ==
  /\ IF renderedProject = << >>
     THEN /\ jToast' = "No Project"
          /\ jReturned' = << >>
     ELSE /\ jToast' = "Project Exported"
          /\ jReturned' = << StringifyProject(renderedProject[1]) >>
  /\ ProjectCalled("exportToFile", << >>)
  /\ UNCHANGED << now, toolName, currentProject, renderedProject,
                  hasUnsavedChanges, projectStore, recentStore,
                  nextProjectId, jCreated, jDirty, jQuiet >>
  /\ UNCHANGED << historyVars, presetVars, deferredVars, exportVars >>

\* The files a user may pick: text that is not JSON, a project this tool
\* exported, one another tool exported, one without a tool name.
ImportFiles(tool) ==
  { Blob(FALSE, << >>),
    StringifyProject(OldProject(1, tool)),
    StringifyProject(ForeignProject),
    StringifyProject(OldProject(2, "")) }

\* reader.readAsText(file): the read is under way when importFromFile returns
readAsText_Dropped(file) == << >>

readAsText(file) == << file >>

\* importFromFile(file): a FileReader starts reading the file
importFromFile(file) ==
  /\ jReading = << >>
  /\ jReading' = readAsText(file)
  /\ jReturned' = << >>
  /\ ProjectCalled("importFromFile", << file >>)
  /\ UNCHANGED << now, toolName, currentProject, renderedProject,
                  hasUnsavedChanges, projectStore, recentStore,
                  nextProjectId, jToast, jCreated, jDirty, jQuiet >>
  /\ UNCHANGED << autoSave, mounted, renderedUnsaved, timers, timerRef,
                  hasCleanup, nextTimerId >>
  /\ UNCHANGED << historyVars, presetVars, exportVars >>

\* !imported.toolName || imported.toolName !== toolName, negated
validImport_Any(imported, tool) == TRUE

validImport(imported, tool) ==
  imported.toolName # "" /\ imported.toolName = tool

\* imported.id = `project-...`; imported.updatedAt = Date.now()
importedProject_KeepId(imported, id, t) == [imported EXCEPT !.updatedAt = t]

importedProject(imported, id, t) ==
  [imported EXCEPT !.id = id, !.updatedAt = t]

\* reader.onload: a later turn parses the text, validates and activates it.
\* On a view torn down meanwhile the state updates are dropped.
importFromFileOnload ==
  /\ jReading # << >>
  /\ ~jDirty
  /\ jReading' = << >>
  /\ jReturned' = << >>
  /\ IF ~jReading[1].json
     THEN /\ jToast' = "Import Failed"
          /\ UNCHANGED << now, currentProject, hasUnsavedChanges,
                          nextProjectId, jDirty, jCreated >>
     ELSE IF ~validImport(ParseProject(jReading[1]), toolName)
     THEN /\ jToast' = "Import Failed"
          /\ UNCHANGED << now, currentProject, hasUnsavedChanges,
                          nextProjectId, jDirty, jCreated >>
     ELSE /\ \E t \in DateNow(now) :
               /\ now' = t
               /\ IF mounted
                  THEN /\ currentProject' =
                            << importedProject(ParseProject(jReading[1]),
                                               ProjectId(nextProjectId), t) >>
                       /\ hasUnsavedChanges' = TRUE
                       /\ jDirty' = TRUE
                       /\ jCreated' = << >>
                  ELSE UNCHANGED << currentProject, hasUnsavedChanges,
                                    jDirty, jCreated >>
          /\ nextProjectId' = nextProjectId + 1
          /\ jToast' = "Project Imported"
  /\ DeferredCalled("onload", jReading)
  /\ UNCHANGED << toolName, renderedProject, projectStore, recentStore,
                  jQuiet >>
  /\ UNCHANGED << autoSave, mounted, renderedUnsaved, timers, timerRef,
                  hasCleanup, nextTimerId >>
  /\ UNCHANGED << historyVars, presetVars, exportVars >>

\* The cleanup of the auto-save effect: clearTimeout(autoSaveTimerRef.current)
cleanupTimers_Keep(ts, ref, cleanup) == ts

cleanupTimers(ts, ref, cleanup) ==
  IF cleanup /\ ref # << >> THEN { t \in ts : t.id # ref[1] } ELSE ts

\* if (!autoSave || !hasUnsavedChanges || !currentProject) return, negated
shouldArm(auto, unsaved, project) == auto /\ unsaved /\ project # << >>

\* setTimeout(() => { save(); }, autoSaveInterval), with the save of a render
Timer_Due(id, closure) == [id |-> id, project |-> closure, due |-> TRUE]

Timer(id, closure) == [id |-> id, project |-> closure, due |-> FALSE]

\* The component renders: save now closes over the current project, the
\* cleanup of the previous auto-save effect runs, then the effect itself.
RenderProject ==
  /\ mounted
  /\ jDirty
  /\ jDirty' = FALSE
  /\ renderedProject' = currentProject
  /\ renderedUnsaved' = hasUnsavedChanges
  /\ LET kept == cleanupTimers(timers, timerRef, hasCleanup)
     IN IF shouldArm(autoSave, hasUnsavedChanges, currentProject)
        THEN /\ timers' = kept \cup { Timer(nextTimerId, currentProject) }
             /\ timerRef' = << nextTimerId >>
             /\ nextTimerId' = nextTimerId + 1
             /\ hasCleanup' = TRUE
        ELSE /\ timers' = kept
             /\ hasCleanup' = FALSE
             /\ UNCHANGED << timerRef, nextTimerId >>
  /\ UNCHANGED << now, toolName, currentProject, hasUnsavedChanges,
                  projectStore, recentStore, nextProjectId, jToast, jReturned,
                  jLastOp, jLastArg, jBefore, jOps, jCreated, autoSave,
                  mounted, jReading, jQuiet >>
  /\ UNCHANGED << historyVars, presetVars, exportVars >>

\* autoSaveInterval passes with no operation called: the pending timers
\* become due.
Elapse ==
  /\ ~jDirty
  /\ ~jQuiet \/ \E t \in timers : ~t.due
  /\ timers' = { [t EXCEPT !.due = TRUE] : t \in timers }
  /\ jQuiet' = TRUE
  /\ now' = IF now < MaxClock THEN now + 1 ELSE now
  /\ UNCHANGED << toolName, currentProject, renderedProject,
                  hasUnsavedChanges, projectStore, recentStore,
                  nextProjectId, jToast, jReturned, jLastOp, jLastArg,
                  jBefore, jOps, jCreated, autoSave, mounted,
                  renderedUnsaved, jDirty, timerRef, hasCleanup, nextTimerId,
                  jReading >>
  /\ UNCHANGED << historyVars, presetVars, exportVars >>

\* A due timer fires: the save of the render that armed it runs.
TimerFires ==
  /\ ~jDirty
  /\ \E t \in timers :
       /\ t.due
       /\ timers' = timers \ { t }
       /\ saveBody(t.project)
       /\ DeferredCalled("autoSave", t.project)
  /\ UNCHANGED << autoSave, mounted, renderedUnsaved, timerRef, hasCleanup,
                  nextTimerId, jReading >>

\* The host view is torn down: the cleanup of the last effect runs and the
\* render that was due is dropped.
Unmount ==
  /\ mounted
  /\ mounted' = FALSE
  /\ timers' = cleanupTimers(timers, timerRef, hasCleanup)
  /\ hasCleanup' = FALSE
  /\ jDirty' = FALSE
  /\ jReturned' = << >>
  /\ DeferredCalled("unmount", << >>)
  /\ UNCHANGED << now, toolName, currentProject, renderedProject,
                  hasUnsavedChanges, projectStore, recentStore,
                  nextProjectId, jToast, jCreated, autoSave, renderedUnsaved,
                  timerRef, nextTimerId, jReading, jQuiet >>
  /\ UNCHANGED << historyVars, presetVars, exportVars >>

\* The ids a caller may pass to load: one per kind of stored entry, the
\* ids generated in this session, one that was never stored.
LoadIds ==
  { << "old", 1 >>, ForeignProject.id, CorruptId, AbsentId }
  \cup { ProjectId(n) : n \in 0..(nextProjectId - 1) }

NextProject ==
  \/ \E d \in ProjectData : \E n \in ProjectNames : createNew(d, n)
  \/ \E d \in ProjectData : updateData(d)
  \/ \E u \in Updaters : updateDataFn(u)
  \/ rename("Renamed")
  \/ save
  \/ \E id \in LoadIds : load(id)
  \/ exportToFile
  \/ \E file \in ImportFiles(toolName) : importFromFile(file)
  \/ importFromFileOnload
  \/ RenderProject

SpecProject == InitProject /\ [][NextProject]_vars

\* useProject({ toolName, autoSave }): the hook with its auto-save timer and
\* the teardown of the view, on one value per argument.
InitAutoSave == MountProject /\ autoSave \in BOOLEAN

NextAutoSave ==
  \/ createNew(<< Prop("a", "1") >>, "My Mosaic")
  \/ updateData(<< Prop("a", "1") >>)
  \/ rename("Renamed")
  \/ save
  \/ load(<< "old", 1 >>)
  \/ importFromFile(StringifyProject(OldProject(1, toolName)))
  \/ importFromFileOnload
  \/ RenderProject
  \/ Elapse
  \/ TimerFires
  \/ Unmount

SpecAutoSave == InitAutoSave /\ [][NextAutoSave]_vars

\* ------------------------------------------------------------------------
\* ExportDialog: recording a video of the canvas
\* ------------------------------------------------------------------------
MaxDuration == 2
MaxExportOps == 4
DefaultDuration == 5

\* The Duration slider offers whole seconds from 1 up.
Durations == 1..MaxDuration

ExportSnapshot ==
  [recorderRef |-> recorderRef, capturing |-> capturing,
   downloads |-> downloads, isRecording |-> isRecording]

\* The user acts on the shown dialog.
ExportCalled(op) ==
  /\ xOps < MaxExportOps
  /\ xOps' = xOps + 1
  /\ xLastOp' = op
  /\ xLastArg' = << >>
  /\ xBefore' = ExportSnapshot

InitExport ==
  /\ HistoryIdle
  /\ PresetsIdle
  /\ ProjectIdle
  /\ now = 0
  /\ open = TRUE
  /\ canvas \in BOOLEAN
  /\ videoDuration = DefaultDuration
  /\ renderedDuration = videoDuration
  /\ isRecording = FALSE
  /\ renderedRecording = FALSE
  /\ exportDirty = FALSE
  /\ recorderRef = << >>
  /\ started = { }
  /\ capturing = { }
  /\ stopTimers = { }
  /\ nextRecorderId = 0
  /\ downloads = 0
  /\ xToast = "none"
  /\ xLastOp = "mount"
  /\ xLastArg = << >>
  /\ xBefore = ExportSnapshot
  /\ xOps = 0

\* setTimeout(async () => { if (recorderRef.current && isRecording) await
\* handleVideoStop(); }, videoDuration * 1000): the callback reads the
\* isRecording of the render whose handleVideoStart made it.
StopTimer(id, seen, seconds) ==
  [id |-> id, isRecording |-> seen, seconds |-> seconds, due |-> FALSE]

\* Start Recording: the button is the start button while the rendered
\* isRecording is false. startRecording throws when the canvas stream or
\* the MediaRecorder cannot be made.
handleVideoStart ==
  /\ open
  /\ ~renderedRecording
  /\ IF ~canvas
     THEN UNCHANGED << isRecording, exportDirty, recorderRef, started,
                       capturing, stopTimers, nextRecorderId, xToast >>
     ELSE /\ recorderRef' = << nextRecorderId >>
          /\ nextRecorderId' = nextRecorderId + 1
          /\ \/ /\ started' = started \cup { nextRecorderId }
                /\ capturing' = capturing \cup { nextRecorderId }
                /\ isRecording' = TRUE
                /\ xToast' = "Recording Started"
                /\ stopTimers' = stopTimers \cup
                     { StopTimer(nextRecorderId, renderedRecording,
                                 renderedDuration) }
             \/ /\ isRecording' = FALSE
                /\ xToast' = "Recording Failed"
                /\ UNCHANGED << started, capturing, stopTimers >>
          /\ exportDirty' = (exportDirty \/ isRecording' # isRecording)
  /\ ExportCalled("handleVideoStart")
  /\ UNCHANGED << open, canvas, videoDuration, renderedDuration,
                  renderedRecording, downloads >>
  /\ UNCHANGED << now, historyVars, presetVars, projectVars >>

\* The body of handleVideoStop: stopRecording saves the video, or rejects
\* when the recorder has no MediaRecorder.
videoStopBody ==
  /\ IF recorderRef = << >>
     THEN UNCHANGED << open, isRecording, exportDirty, recorderRef,
                       capturing, downloads, xToast >>
     ELSE /\ IF recorderRef[1] \in started
             THEN /\ capturing' = capturing \ { recorderRef[1] }
                  /\ downloads' = downloads + 1
                  /\ xToast' = "Recording Complete"
                  /\ open' = FALSE
             ELSE /\ xToast' = "Recording Failed"
                  /\ UNCHANGED << open, capturing, downloads >>
          /\ isRecording' = FALSE
          /\ recorderRef' = << >>
          /\ exportDirty' = (exportDirty \/ isRecording)
  /\ UNCHANGED << canvas, videoDuration, renderedDuration, renderedRecording,
                  started, nextRecorderId >>
  /\ UNCHANGED << now, historyVars, presetVars, projectVars >>

\* Stop Recording: the button is the stop button while the rendered
\* isRecording is true.
handleVideoStop ==
  /\ open
  /\ renderedRecording
  /\ videoStopBody
  /\ ExportCalled("handleVideoStop")
  /\ UNCHANGED stopTimers

\* The Duration slider
setVideoDuration(v) ==
  /\ open
  /\ videoDuration' = v
  /\ exportDirty' = (exportDirty \/ v # videoDuration)
  /\ ExportCalled("setVideoDuration")
  /\ UNCHANGED << open, canvas, renderedDuration, isRecording,
                  renderedRecording, recorderRef, started, capturing,
                  stopTimers, nextRecorderId, downloads, xToast >>
  /\ UNCHANGED << now, historyVars, presetVars, projectVars >>

\* Cancel closes the dialog, the host view opens it again.
onOpenChange(v) ==
  /\ open # v
  /\ open' = v
  /\ ExportCalled("onOpenChange")
  /\ UNCHANGED << canvas, videoDuration, renderedDuration, isRecording,
                  renderedRecording, exportDirty, recorderRef, started,
                  capturing, stopTimers, nextRecorderId, downloads, xToast >>
  /\ UNCHANGED << now, historyVars, presetVars, projectVars >>

RenderExport ==
  /\ exportDirty
  /\ exportDirty' = FALSE
  /\ renderedRecording' = isRecording
  /\ renderedDuration' = videoDuration
  /\ UNCHANGED << open, canvas, videoDuration, isRecording, recorderRef,
                  started, capturing, stopTimers, nextRecorderId, downloads,
                  xToast, xLastOp, xLastArg, xBefore, xOps >>
  /\ UNCHANGED << now, historyVars, presetVars, projectVars >>

\* The seconds of a pending timer run out.
DurationElapses ==
  /\ ~exportDirty
  /\ \E t \in stopTimers :
       /\ ~t.due
       /\ stopTimers' = (stopTimers \ { t }) \cup { [t EXCEPT !.due = TRUE] }
  /\ UNCHANGED << open, canvas, videoDuration, renderedDuration, isRecording,
                  renderedRecording, exportDirty, recorderRef, started,
                  capturing, nextRecorderId, downloads, xToast, xLastOp,
                  xLastArg, xBefore, xOps >>
  /\ UNCHANGED << now, historyVars, presetVars, projectVars >>

\* The callback of a due timer runs.
StopTimerFires ==
  /\ ~exportDirty
  /\ \E t \in stopTimers :
       /\ t.due
       /\ stopTimers' = stopTimers \ { t }
       /\ xLastOp' = "autoStop"
       /\ xLastArg' = << t >>
       /\ xBefore' = ExportSnapshot
       /\ IF recorderRef # << >> /\ t.isRecording
          THEN videoStopBody
          ELSE /\ UNCHANGED << open, canvas, videoDuration, renderedDuration,
                               isRecording, renderedRecording, exportDirty,
                               recorderRef, started, capturing,
                               nextRecorderId, downloads, xToast >>
               /\ UNCHANGED << now, historyVars, presetVars, projectVars >>
  /\ UNCHANGED xOps

NextExport ==
  \/ handleVideoStart
  \/ handleVideoStop
  \/ \E v \in Durations : setVideoDuration(v)
  \/ \E v \in BOOLEAN : onOpenChange(v)
  \/ RenderExport
  \/ DurationElapses
  \/ StopTimerFires

SpecExport == InitExport /\ [][NextExport]_vars

\* ------------------------------------------------------------------------
\* Properties
\* ------------------------------------------------------------------------
\* past ++ [present], with the oldest entry dropped when longer than max
Pushed(h, max) ==
  LET p == Append(h.past, h.present)
  IN IF Len(p) > max THEN SubSeq(p, 2, Len(p)) ELSE p

Timeline(h) == h.past \o << h.present >> \o h.future

\* Structural (deep) equality of two objects: the same property names, each
\* with the same value, in whatever order they were inserted.
Get(obj, k) == obj[CHOOSE i \in 1..Len(obj) : obj[i].key = k].val

StructEq(x, y) ==
  /\ KeysOf(x) = KeysOf(y)
  /\ \A k \in KeysOf(x) : Get(x, k) = Get(y, k)

SameJSON(x, y) == JSONstringify(x) = JSONstringify(y)

PairwiseDistinctJSON(s) ==
  \A i, j \in 1..Len(s) : i # j => ~SameJSON(s[i], s[j])

PairwiseDistinctStruct(s) ==
  \A i, j \in 1..Len(s) : i # j => ~StructEq(s[i], s[j])

\* C1: in every reachable state len(past) <= maxHistorySize, however many
\* setState calls were made.
C1_PastWithinCapacity == Len(history.past) <= maxHistorySize

C1_Witness ==
  /\ lastOp = "setState"
  /\ phase = "sets"
  /\ Len(calls) > maxHistorySize
  /\ PairwiseDistinctJSON(<< initialState >> \o calls)
  /\ Len(history.past) = maxHistorySize

\* C2: a setState whose resolved value is not structurally equal to present
\* pushes present onto past (dropping the oldest entry beyond the
\* capacity), makes the value the present and empties future.
C2_SetStatePushes ==
  (lastOp = "setState" /\ ~StructEq(lastArg[1], before.present))
    => history = HistoryState(Pushed(before, maxHistorySize), lastArg[1], << >>)

\* C3 (as stated): any setState call made after an undo() leaves future
\* empty.
C3_AnySetStateAfterUndo ==
  (lastOp = "setState" /\ beforeUndone) => history.future = << >>

\* C3 (amended): a setState call made after an undo() whose resolved value
\* serializes differently from present leaves future empty.
C3_DivergentEdit ==
  (lastOp = "setState" /\ beforeUndone /\ ~SameJSON(lastArg[1], before.present))
    => history.future = << >>

C3_Witness ==
  /\ lastOp = "setState"
  /\ beforeUndone
  /\ before.future # << >>
  /\ history.present = lastArg[1]
  /\ history.future = << >>

\* C4: a setState whose resolved value is structurally equal to present
\* changes neither past, present nor future.
C4_EqualSetStateIsNoOp ==
  (lastOp = "setState" /\ StructEq(lastArg[1], before.present))
    => history = before

\* C5 (as stated): after setState calls with pairwise-distinct values
\* (distinct from the initial value too, structurally and as serialized),
\* canUndo is true from the first call on, and once undo() has been
\* repeated until canUndo is false present is the initial value.
C5_UndoAllReturnsInitial ==
  (/\ phase \in {"sets", "undos"}
   /\ PairwiseDistinctStruct(<< initialState >> \o calls)
   /\ PairwiseDistinctJSON(<< initialState >> \o calls))
    => /\ (phase = "sets" /\ Len(calls) >= 1) => canUndo
       /\ (phase = "undos" /\ ~canUndo) => history.present = initialState

\* C5 (amended): the same for at most maxHistorySize setState calls whose
\* values, with the initial value, serialize pairwise differently.
C5_UndoAllWithinCapacity ==
  (/\ phase \in {"sets", "undos"}
   /\ Len(calls) <= maxHistorySize
   /\ PairwiseDistinctJSON(<< initialState >> \o calls))
    => /\ (phase = "sets" /\ Len(calls) >= 1) => canUndo
       /\ (phase = "undos" /\ ~canUndo) => history.present = initialState

C5_Witness ==
  /\ phase = "undos"
  /\ ~canUndo
  /\ Len(calls) >= 2
  /\ Len(calls) = maxHistorySize
  /\ PairwiseDistinctJSON(<< initialState >> \o calls)
  /\ history.present = initialState

\* C6: undo() immediately followed by redo() leaves present unchanged when
\* there was nothing to redo before (as in every state reached by setState
\* alone), and leaves past, present and future unchanged when past was not
\* empty.
C6_UndoRedoRoundTrip ==
  [][(lastOp = "undo" /\ lastOp' = "redo")
       => /\ before.future = << >> => history'.present = before.present
          /\ before.past # << >> => history' = before]_vars

C6_Witness ==
  /\ lastOp = "redo"
  /\ beforeUndone
  /\ before.future # << >>
  /\ Len(history.past) >= 2
  /\ history.future = << >>

\* C7: undo() with empty past changes nothing; otherwise the last entry of
\* past becomes present, is removed from past, the previous present is put
\* at the front of future, and canRedo is true.
C7_Undo ==
  lastOp = "undo"
    => IF before.past = << >>
       THEN history = before
       ELSE /\ history.present = before.past[Len(before.past)]
            /\ history.past = SubSeq(before.past, 1, Len(before.past) - 1)
            /\ history.future = << before.present >> \o before.future
            /\ canRedo

C7_Witness ==
  /\ lastOp = "undo"
  /\ Len(before.past) >= 2
  /\ Len(history.past) = Len(before.past) - 1
  /\ canRedo

\* C8: redo() with empty future changes nothing; otherwise the first entry
\* of future becomes present, is removed from future, and the previous
\* present is appended to past; canRedo is false exactly when future is
\* empty.
C8_Redo ==
  lastOp = "redo"
    => /\ IF before.future = << >>
          THEN history = before
          ELSE /\ history.present = before.future[1]
               /\ history.future = SubSeq(before.future, 2, Len(before.future))
               /\ history.past = before.past \o << before.present >>
       /\ ~canRedo <=> history.future = << >>

C8_Witness ==
  /\ lastOp = "redo"
  /\ Len(before.future) >= 2
  /\ history.past = before.past \o << before.present >>
  /\ canRedo

\* C9: clear() empties past and future and keeps the present it is called
\* on, also when a setState was issued earlier in the same event handler.
C9_ClearKeepsPresent ==
  lastOp = "clear" => history = HistoryState(<< >>, before.present, << >>)

\* C10: jumpToPast(index) changes nothing when index is outside
\* [0, len(past)); otherwise past is cut before index, past[index] becomes
\* present, and the later past entries, the old present and the old future
\* follow in future, so that the sequence of snapshots is the same.
C10_JumpToPast ==
  lastOp = "jumpToPast"
    => LET index == lastArg[1]
       IN IF index < 0 \/ index >= Len(before.past)
          THEN history = before
          ELSE /\ history.past = SubSeq(before.past, 1, index)
               /\ history.present = before.past[index + 1]
               /\ history.future =
                    SubSeq(before.past, index + 2, Len(before.past))
                      \o << before.present >> \o before.future
               /\ Timeline(history) = Timeline(before)

C10_Witness ==
  /\ lastOp = "jumpToPast"
  /\ lastArg[1] = 0
  /\ Len(before.past) >= 2
  /\ Len(history.future) >= 2
  /\ history.past = << >>

\* ------------------------------------------------------------------------
\* Presets
\* ------------------------------------------------------------------------
\* The ids a caller may hold: those in play, one never used, the next fresh one.
KnownIds ==
  IdsOf(presets) \cup IdsOf(renderedPresets) \cup IdsOf(defaultPresets)
  \cup { CustomId, PresetId(nextPresetId) }

C12_DefaultsNeverRemoved ==
  /\ (pLastOp = "deletePreset" /\ pLastArg[1] \in IdsOf(defaultPresets))
       => /\ pToast = "Cannot Delete"
          /\ presets = pBefore
          /\ ~presetsDirty
  /\ IdsOf(defaultPresets) \subseteq IdsOf(presets)

\* C13: once a change to the collection (savePreset, updatePreset,
\* deletePreset, importPresets) has taken effect, the store holds the
\* collection minus the default presets, holds no default preset, and
\* re-opening it yields the defaults followed by exactly those user presets.
C13_StoreMirrorsUserPresets ==
  (/\ pLastOp \in { "savePreset", "updatePreset", "deletePreset", "onload" }
   /\ ~presetsDirty)
    => /\ presetStore
            = << StringifyPresets(userPresets(presets, defaultPresets)) >>
       /\ IdsOf(presetStore[1]) \cap IdsOf(defaultPresets) = { }
       /\ initialPresets(defaultPresets, presetStore)
            = defaultPresets \o userPresets(presets, defaultPresets)

\* C14: updatePreset(id, partial) on a preset in the collection (default or
\* user) merges the partial's fields into it and sets updatedAt to the
\* clock, leaves the other presets as they were, keeps the preset's id, and
\* once the change has taken effect the updated preset is in the store.
C14_UpdateMergesAndPersists ==
  (pLastOp = "updatePreset" /\ pLastArg[1] \in IdsOf(pBefore))
    => /\ Len(presets) = Len(pBefore)
       /\ \A i \in 1..Len(pBefore) :
            IF pBefore[i].id = pLastArg[1]
            THEN /\ \A f \in DOMAIN pLastArg[2] \ { "id" } :
                      presets[i][f] = pLastArg[2][f]
                 /\ \A f \in DOMAIN pBefore[i]
                             \ (DOMAIN pLastArg[2] \cup { "updatedAt" }) :
                      presets[i][f] = pBefore[i][f]
                 /\ presets[i].updatedAt >= pBefore[i].updatedAt
                 /\ presets[i].updatedAt = now
                 /\ presets[i].id = pBefore[i].id
                 /\ ~presetsDirty
                      => /\ presetStore # << >>
                         /\ \E j \in 1..Len(presetStore[1]) :
                              presetStore[1][j]
                                = StringifyPresets(<< presets[i] >>)[1]
            ELSE presets[i] = pBefore[i]

\* The last step was reader.onload having parsed the file exportPresets wrote.
ImportedTheExport ==
  /\ pLastOp = "onload"
  /\ pToast = "Presets Imported"
  /\ exported # << >>
  /\ pLastArg = << File(TRUE, exported[1]) >>

\* What JSON.parse reads back from the JSON.stringify of a preset array.
RoundTrip(ps) == ParsePresets(StringifyPresets(ps))

\* C15 as stated, for data that JSON represents exactly: importing the blob
\* exportPresets produced into a collection without user presets yields the
\* exported presets and nothing else.
C15_RoundTripReproducesSet ==
  (/\ ImportedTheExport
   /\ pBefore = defaultPresets
   /\ RoundTrip(exportedFrom) = exportedFrom)
    => presets = exportedFrom

\* C15: importing the blob exportPresets produced appends, after the presets
\* the collection already holds (its defaults included), one preset per
\* exported preset, in order, with the same id, name and description and
\* with the data JSON.parse reads back from the exported text.
C15_ImportAppendsExport ==
  ImportedTheExport
    => /\ presets = pBefore \o RoundTrip(exportedFrom)
       /\ \A i \in 1..Len(exportedFrom) :
            LET p == presets[Len(pBefore) + i]
                o == exportedFrom[i]
            IN /\ p.id = o.id
               /\ p.name = o.name
               /\ p.description = o.description
               /\ p.data = JSONparse(JSONstringify(o.data))

C15_Witness ==
  /\ ImportedTheExport
  /\ defaultPresets # << >>
  /\ pBefore = defaultPresets
  /\ exportedFrom = defaultPresets
  /\ presets = defaultPresets \o defaultPresets

\* ------------------------------------------------------------------------
\* Projects
\* ------------------------------------------------------------------------
NoDuplicateIds(s) ==
  \A i, j \in 1..Len(s) : s[i].id = s[j].id => i = j

\* The position of entry e in the sequence s that holds it once.
IndexIn(s, e) == CHOOSE k \in 1..Len(s) : s[k] = e

C17_SaveThenLoad ==
  (/\ jLastOp = "load"
   /\ jCreated # << >>
   /\ jCreated[1].name # ""
   /\ jLastArg = << jCreated[1].id >>
   /\ jCreated[1].id \in DOMAIN jBefore.store)
    => /\ jReturned # << >>
       /\ StructEq(jReturned[1].data, jCreated[1].data)
       /\ jReturned[1].name = jCreated[1].name
       /\ currentProject = jReturned
       /\ ~hasUnsavedChanges

\* C18: createNew(initialData, name) makes active a project with an id no
\* stored or earlier project has, createdAt = updatedAt, the given data and
\* name (the default name when none is given); hasUnsavedChanges is false
\* and the store is as it was.
C18_CreateNew ==
  jLastOp = "createNew"
    => /\ currentProject = jReturned
       /\ LET p == currentProject[1]
          IN /\ p.id \notin DOMAIN projectStore
             /\ jBefore.project # << >> => p.id # jBefore.project[1].id
             /\ p.createdAt = p.updatedAt
             /\ p.data = jLastArg[1]
             /\ p.name = ProjectName(jLastArg[2], toolName)
             /\ p.toolName = toolName
       /\ ~hasUnsavedChanges
       /\ projectStore = jBefore.store
       /\ recentStore = jBefore.recent

\* C19: updateData and rename called while there is no active project
\* change nothing: the project stays absent, hasUnsavedChanges keeps its
\* value and the store is as it was.
C19_NoProjectNoOp ==
  (jLastOp \in { "updateData", "rename" } /\ jBefore.project = << >>)
    => /\ currentProject = << >>
       /\ hasUnsavedChanges = jBefore.unsaved
       /\ projectStore = jBefore.store
       /\ recentStore = jBefore.recent

\* C20: when a localStorage write fails during save(), save() returns
\* having reported "Save Failed" and the in-memory state is as before: the
\* same active project, hasUnsavedChanges not cleared.
C20_SaveFailureKeepsState ==
  (jLastOp = "save" /\ jLastArg # << >> /\ jToast # "Project Saved")
    => /\ jToast = "Save Failed"
       /\ jReturned = << >>
       /\ currentProject = jBefore.project
       /\ hasUnsavedChanges = jBefore.unsaved

C20_Witness ==
  /\ jLastOp = "save"
  /\ jToast = "Save Failed"
  /\ currentProject # << >>
  /\ hasUnsavedChanges
  /\ jLastArg[1].id \in DOMAIN projectStore
  /\ jLastArg[1].id \notin IdsOf(recentStore)

\* ------------------------------------------------------------------------
\* History, continued
\* ------------------------------------------------------------------------
\* C27: in every reachable state len(past) + len(future) <= maxHistorySize;
\* undo, redo and jumpToPast leave the sequence past ++ [present] ++ future
\* as it was, so redo never makes past longer than the capacity.
C27_TimelineWithinCapacity ==
  /\ Len(history.past) + Len(history.future) <= maxHistorySize
  /\ lastOp \in { "undo", "redo", "jumpToPast" }
       => Timeline(history) = Timeline(before)
  /\ lastOp = "redo" => Len(history.past) <= maxHistorySize

C27_Witness ==
  /\ lastOp = "redo"
  /\ before.future # << >>
  /\ maxHistorySize >= 2
  /\ Len(history.past) = maxHistorySize
  /\ Len(before.past) + Len(before.future) = maxHistorySize

\* ------------------------------------------------------------------------
\* Projects, continued
\* ------------------------------------------------------------------------
\* The file reader.onload has just handled, parsed.
OnloadFile == ParseProject(jLastArg[1])

\* C21: importFromFile of a file whose toolName is missing or is another
\* tool's reports "Import Failed" and changes nothing: the active project
\* or its absence, hasUnsavedChanges and the store are as before.
C21_ForeignImportRejected ==
  (/\ jLastOp = "onload"
   /\ jLastArg[1].json
   /\ OnloadFile.toolName = "" \/ OnloadFile.toolName # toolName)
    => /\ jToast = "Import Failed"
       /\ currentProject = jBefore.project
       /\ hasUnsavedChanges = jBefore.unsaved
       /\ projectStore = jBefore.store
       /\ recentStore = jBefore.recent

C21_Witness ==
  /\ jLastOp = "onload"
  /\ jLastArg[1].json
  /\ OnloadFile.toolName = "particle-swarm"
  /\ jToast = "Import Failed"
  /\ currentProject # << >>
  /\ currentProject = jBefore.project

\* The ids of the projects this session has made active or found stored.
EarlierIds ==
  DOMAIN jBefore.store
  \cup { ProjectId(n) : n \in 0..(nextProjectId - 2) }
  \cup (IF jBefore.project = << >> THEN { } ELSE { jBefore.project[1].id })

\* C22: a successful importFromFile makes the imported project the active
\* one with hasUnsavedChanges = true and an id that is neither the id in
\* the file nor the id of any stored or earlier project; every stored blob
\* is the blob of the project whose id is its key.
C22_ImportGetsFreshId ==
  /\ \A id \in DOMAIN projectStore :
       projectStore[id].json => projectStore[id].text.id = id
  /\ (jLastOp = "onload" /\ jToast = "Project Imported" /\ mounted)
       => /\ currentProject # << >>
          /\ hasUnsavedChanges
          /\ currentProject[1].id # OnloadFile.id
          /\ currentProject[1].id \notin EarlierIds
          /\ currentProject[1].data = OnloadFile.data
          /\ currentProject[1].name = OnloadFile.name

C22_Witness ==
  /\ jLastOp = "onload"
  /\ jToast = "Project Imported"
  /\ jBefore.project # << >>
  /\ OnloadFile.id \in DOMAIN projectStore
  /\ currentProject[1].id \notin DOMAIN projectStore
  /\ hasUnsavedChanges


\* The hook is at rest: mounted, and every queued state update rendered.
Settled == mounted /\ ~jDirty

\* With auto-save disabled no timer is ever armed and none invokes save().
NoTimerWhenDisabled == ~autoSave => timers = { } /\ jLastOp # "autoSave"

\* C23: with auto-save enabled, whenever hasUnsavedChanges is true and an
\* active project exists, whatever led there (a save() attempt that failed
\* included), an auto-save timer is pending; with auto-save disabled no
\* timer invokes save().
C23_TimerPendingWhileUnsaved ==
  /\ NoTimerWhenDisabled
  /\ (autoSave /\ Settled /\ hasUnsavedChanges /\ currentProject # << >>)
       => timers # { }


\* The last operation was an updateData or a rename of an active project,
\* and the render it caused is done.
EditRendered ==
  /\ jLastOp \in { "updateData", "updateDataFn", "rename" }
  /\ jBefore.project # << >>
  /\ Settled

C25_TeardownCancelsTimer ==
  ~mounted
    => /\ timers = { }
       /\ jLastOp \in { "unmount", "onload" }
       /\ projectStore = jBefore.store
       /\ recentStore = jBefore.recent

C25_Witness ==
  /\ ~mounted
  /\ jLastOp = "unmount"
  /\ jBefore.unsaved
  /\ \E t \in jBefore.timers : t.due
  /\ timers = { }


\* importPresets leaves the collection as it was and a read under way; the
\* collection changes in the reader's onload.
ImportPresetsFinishesInOnload ==
  /\ pLastOp = "importPresets" => reading # << >> /\ presets = pBefore
  /\ (pLastOp = "onload" /\ pLastArg[1].json)
       => presets = importUpdate(pBefore, ParsePresets(pLastArg[1].blob))

C28_CleanMeansStored ==
  (/\ currentProject # << >>
   /\ ~hasUnsavedChanges
   /\ currentProject[1].id \in DOMAIN projectStore)
    => /\ projectStore[currentProject[1].id].json
       /\ ParseProject(projectStore[currentProject[1].id]) = currentProject[1]


\* C29: the active project's toolName is the hook's toolName, whichever of
\* createNew, load and importFromFile made it active.
C29_ActiveProjectOfThisTool ==
  currentProject # << >> => currentProject[1].toolName = toolName


\* The timer of the recorder that is still the dialog's recorder has fired.
AutoStopDue ==
  /\ xLastOp = "autoStop"
  /\ xBefore.recorderRef = << xLastArg[1].id >>
  /\ xLastArg[1].id \in xBefore.capturing

\* C30: after Start Recording succeeded and the chosen duration has
\* elapsed without Stop being pressed, the recording is stopped, the video
\* is saved and the dialog is no longer recording.
C30_RecordingStopsItself ==
  AutoStopDue
    => /\ xLastArg[1].id \notin capturing
       /\ downloads = xBefore.downloads + 1
       /\ ~isRecording

====
